---------------------------- MODULE Spec2Model ----------------------------
(***************************************************************************)
(* Model of schedule_workers (multiprocessing_scheduler.py): a coordinator  *)
(* that keeps at most max_processes worker processes alive, one per item of *)
(* args_list, and collects one envelope per worker from results_q.          *)
(*                                                                          *)
(* The coordinator is one sequential process whose position is pc; every    *)
(* started worker is a process of its own (Process backend) or runs inline  *)
(* inside start() (FakeProcess backend).                                    *)
(***************************************************************************)
EXTENDS Integers, Sequences, FiniteSets, Bags, TLC

\* ---- bounds of the model ----
MaxJobs == 3        \* longest args_list explored
MaxLimit == 3       \* largest max_processes explored
MaxBelow == 1       \* max_processes is explored from -MaxBelow (zero and negative included)

VARIABLES
    args_list,          \* parameter: the jobs, in submission order
    max_processes,      \* parameter
    forward_exceptions, \* parameter
    backend,            \* what the name Process is bound to: "Process" or "FakeProcess"
    pc,                 \* position of the coordinator in schedule_workers
    caller,             \* who called collect_result: the "for" loop or the "while" loop
    pid,                \* loop variable of the for loop (index of the job being admitted)
    next_pid,           \* number of items enumerate() has handed out
    processes,          \* keys of the dict processes (pid -> handle)
    worker,             \* state of the worker process behind each handle
    results_q,          \* the Queue: envelopes put and not yet got, oldest first
    results,            \* the list results
    result,             \* local variable of collect_result: the envelope just got
    raised,             \* the exception schedule_workers raised (None while none)
    joined,             \* history: pids whose handle join() has returned for
    received,           \* history: every envelope got from results_q, in order
    terminate_calls,    \* history: every call of terminate(): on which handle, from where
    proc_f              \* the frame of one call of _proc_f made on its own (as in Test_proc_f)

vars == <<args_list, max_processes, forward_exceptions, backend, pc, caller, pid,
          next_pid, processes, worker, results_q, results, result, raised, joined,
          received, terminate_calls, proc_f>>

params == <<args_list, max_processes, forward_exceptions, backend>>

\* The state of a call of schedule_workers, apart from results_q.
scheduler == <<params, pc, caller, pid, next_pid, processes, worker, results, result,
               raised, joined, received, terminate_calls>>

\* Python's None; every field that can be None holds a tuple otherwise.
None == <<>>

\* One item of args_list together with what function does on it: it returns
\* its argument tuple (return_args) or raises an Exception built from it (crash).
Job == [args : {<<v>> : v \in 0..(MaxJobs - 1)}, crash : BOOLEAN]

\* The argument lists of the tests, list(zip(range(n))): job i is called with
\* (i,); which of the jobs raise is free.
ArgsLists ==
    UNION {{[i \in 1..n |-> [args |-> <<i - 1>>, crash |-> c[i]]] : c \in [1..n -> BOOLEAN]}
           : n \in 0..MaxJobs}

Backends == {"Process", "FakeProcess"}

\* enumerate() numbers the jobs from 0; TLA+ sequences start at 1.
JobOf(p) == args_list[p + 1]

Pids == 0..(Len(args_list) - 1)

\* What function returns on a job it does not crash on: its argument tuple.
function(j) == j.args

\* The exception object function raises on job j, and the rendered traceback.
ExceptionOf(j) == [type |-> "Exception", args |-> j.args]

stacktrace == "stacktrace"

\* _proc_f: the envelope (retdict) the worker puts on results_q.
_proc_f(p, j) ==
    IF j.crash
    THEN [pid |-> p, exception |-> <<ExceptionOf(j), stacktrace>>, result |-> None]
    ELSE [pid |-> p, exception |-> None, result |-> function(j)]

\* A put that delivers the envelope twice.
put_twice(q, item) == Append(Append(q, item), item)

\* A put that loses an envelope delivered while another is waiting.
put_lossy(q, item) == IF q = <<>> THEN Append(q, item) ELSE q

\* Queue.put / Queue.get: first in, first out.
put(q, item) == Append(q, item)

\* ---- the class bound to the name Process ----

\* start(): both classes begin running the target; Process in a child process,
\* FakeProcess in the caller's own thread.
start(w, p) == [w EXCEPT ![p] = "running"]

\* start() that never waits for the target.
start_returned_async(b, w, p) == TRUE

\* Has start() returned?  Process.start returns once the child is forked;
\* FakeProcess.start returns when target (the whole of _proc_f) has returned.
start_returned(b, w, p) ==
    IF b = "FakeProcess" THEN w[p] = "exited" ELSE TRUE

\* join() that does not wait for the child.
join_returns_nowait(b, w, p) == TRUE

\* Can join() return?  Process.join waits for the child to be gone;
\* FakeProcess.join is `pass`.
join_returns(b, w, p) ==
    IF b = "FakeProcess" THEN TRUE ELSE w[p] \in {"exited", "terminated"}

\* Process.terminate that marks any child as killed, finished or not.
terminate_any(b, w, p) ==
    IF b = "FakeProcess" THEN w ELSE [w EXCEPT ![p] = "terminated"]

\* terminate(): Process.terminate kills a child that is still alive;
\* FakeProcess.terminate is `pass`.
terminate(b, w, p) ==
    IF b = "FakeProcess" THEN w
    ELSE IF w[p] \in {"running", "delivered"} THEN [w EXCEPT ![p] = "terminated"]
    ELSE w

RECURSIVE terminate_all(_, _, _)
terminate_all(b, w, ps) ==
    IF ps = {} THEN w
    ELSE LET p == CHOOSE x \in ps : TRUE
         IN terminate_all(b, terminate(b, w, p), ps \ {p})

\* The handles the failure path calls terminate() on (line 109): every item of
\* processes; r is the envelope that reported the failure.
terminate_targets(ps, r) == {[pid |-> p, line |-> 109] : p \in ps}

\* Off by one: the window is taken to be full only above the limit.
window_full_gt(ps, limit) == Cardinality(ps) > limit

\* len(processes) >= max_processes
window_full(ps, limit) == Cardinality(ps) >= limit

\* Off by one: the drain loop stops with one handle left.
while_cond_gt1(ps) == Cardinality(ps) > 1

\* while len(processes) > 0
while_cond(ps) == Cardinality(ps) > 0

\* The flag is ignored and no failure is ever raised.
must_raise_never(r, fwd) == FALSE

\* The flag is ignored and every failure is raised.
must_raise_always(r, fwd) == r.exception # None

\* collect_result raises: the envelope carries an exception and forward_exceptions is set.
must_raise(r, fwd) == r.exception # None /\ fwd

\* The payload is put at the head of the list.
append_front(l, x) == <<x>> \o l

\* results.append(result['result'])
append(l, x) == Append(l, x)

\* The traceback replaces the arguments of the exception.
with_stacktrace_only(e, st) == [e EXCEPT !.args = <<st>>]

\* e.args += (stacktrace,)
with_stacktrace(e, st) == [e EXCEPT !.args = Append(@, st)]

\* ---- _proc_f, statement by statement ----

\* How the call function(*args, **kwargs) of line 57 ends: it returns, it
\* raises an Exception, or it raises a BaseException that is no Exception
\* (SystemExit, KeyboardInterrupt).
Outcomes == {"return", "Exception", "BaseException"}

\* The exception object raised by a call that ends with outcome o.
Raises(o, args) == [type |-> o, args |-> args]

\* retdict = {'pid': pid, 'exception': None, 'result': None}
retdict0(p) == [pid |-> p, exception |-> None, result |-> None]

\* An except clause that catches everything raised.
caught_any(o) == o # "return"

\* except Exception as e: the clause matches an Exception only.
caught(o) == o = "Exception"

\* No call of _proc_f on its own is under way.
NoCall == [pc |-> "none"]

Init ==
    /\ args_list \in ArgsLists
    /\ max_processes \in (0 - MaxBelow)..MaxLimit
    /\ forward_exceptions \in BOOLEAN
    /\ backend \in Backends
    /\ pc = "for"
    /\ caller = "for"
    /\ pid = 0
    /\ next_pid = 0
    /\ processes = {}
    /\ worker = [p \in Pids |-> "none"]
    /\ results_q = <<>>
    /\ results = <<>>
    /\ result = None
    /\ raised = None
    /\ joined = {}
    /\ received = <<>>
    /\ terminate_calls = {}
    /\ proc_f = NoCall

\* ---- the coordinator ----

\* The for loop takes the next job: the loop is over, or the window is full
\* and collect_result() is called first, or new_process starts the worker.
ForLoop ==
    /\ pc = "for"
    /\ IF next_pid = Len(args_list)
       THEN /\ pc' = "while"
            /\ UNCHANGED <<pid, next_pid, caller, worker>>
       ELSE /\ pid' = next_pid
            /\ next_pid' = next_pid + 1
            /\ IF window_full(processes, max_processes)
               THEN /\ pc' = "get"
                    /\ caller' = "for"
                    /\ UNCHANGED worker
               ELSE /\ pc' = "start"
                    /\ worker' = start(worker, next_pid)
                    /\ UNCHANGED caller
    /\ UNCHANGED <<params, proc_f, terminate_calls, processes, results_q, results, result, raised, joined,
                   received>>

\* new_process, after new_proc.start() has returned: processes[pid] = new_proc.
Register(b) ==
    /\ pc = "start"
    /\ start_returned(b, worker, pid)
    /\ processes' = processes \cup {pid}
    /\ pc' = "for"
    /\ UNCHANGED <<params, proc_f, terminate_calls, caller, pid, next_pid, worker, results_q, results, result,
                   raised, joined, received>>

\* The while loop: drain until processes is empty, then return results.
WhileLoop ==
    /\ pc = "while"
    /\ IF while_cond(processes)
       THEN pc' = "get" /\ caller' = "while"
       ELSE pc' = "returned" /\ UNCHANGED caller
    /\ UNCHANGED <<params, proc_f, terminate_calls, pid, next_pid, processes, worker, results_q, results,
                   result, raised, joined, received>>

\* collect_result up to the join: results_q.get() returns an envelope; a result
\* is appended, a failure is raised after terminating every handle, or dropped.
CollectResult(b) ==
    /\ pc = "get"
    /\ results_q # <<>>
    /\ LET r == Head(results_q) IN
        /\ result' = r
        /\ results_q' = Tail(results_q)
        /\ received' = Append(received, r)
        /\ IF r.exception = None
           THEN /\ results' = append(results, r.result)
                /\ pc' = "join"
                /\ UNCHANGED <<worker, raised, terminate_calls>>
           ELSE IF must_raise(r, forward_exceptions)
           THEN /\ worker' = terminate_all(b, worker, processes)
                /\ terminate_calls' = terminate_calls \cup terminate_targets(processes, r)
                /\ raised' = with_stacktrace(r.exception[1], r.exception[2])
                /\ pc' = "raised"
                /\ UNCHANGED results
           ELSE /\ pc' = "join"
                /\ UNCHANGED <<worker, raised, results, terminate_calls>>
    /\ UNCHANGED <<params, proc_f, caller, pid, next_pid, processes, joined>>

\* The rest of collect_result: join the handle named by the envelope, terminate
\* it, delete it; then back to the caller: the for loop goes on to new_process
\* (start of the worker for pid), the while loop tests its condition again.
Join(b) ==
    /\ pc = "join"
    /\ join_returns(b, worker, result.pid)
    /\ joined' = joined \cup {result.pid}
    /\ terminate_calls' = terminate_calls \cup {[pid |-> result.pid, line |-> 115]}
    /\ processes' = processes \ {result.pid}
    /\ IF caller = "for"
       THEN /\ pc' = "start"
            /\ worker' = start(terminate(b, worker, result.pid), pid)
       ELSE /\ pc' = "while"
            /\ worker' = terminate(b, worker, result.pid)
    /\ UNCHANGED <<params, proc_f, caller, pid, next_pid, results_q, results, result, raised,
                   received>>

\* ---- the workers ----

\* _proc_f reaches results_q.put(retdict).
WorkerPut(p) ==
    /\ worker[p] = "running"
    /\ results_q' = put(results_q, _proc_f(p, JobOf(p)))
    /\ worker' = [worker EXCEPT ![p] = "delivered"]
    /\ UNCHANGED <<params, proc_f, terminate_calls, pc, caller, pid, next_pid, processes, results, result,
                   raised, joined, received>>

\* _proc_f returns: the child process exits (the inline call returns).
WorkerExit(p) ==
    /\ worker[p] = "delivered"
    /\ worker' = [worker EXCEPT ![p] = "exited"]
    /\ UNCHANGED <<params, proc_f, terminate_calls, pc, caller, pid, next_pid, processes, results_q, results,
                   result, raised, joined, received>>

Coordinator(b) ==
    \/ ForLoop
    \/ Register(b)
    \/ WhileLoop
    \/ CollectResult(b)
    \/ Join(b)

Workers ==
    \E p \in Pids : WorkerPut(p) \/ WorkerExit(p)

\* The steps of a call whose name Process is bound to the class b.
NextOf(b) == Coordinator(b) \/ Workers

Next ==
    \/ ForLoop
    \/ Register(backend)
    \/ WhileLoop
    \/ CollectResult(backend)
    \/ Join(backend)
    \/ \E p \in Pids : WorkerPut(p)
    \/ \E p \in Pids : WorkerExit(p)

Spec == Init /\ [][Next]_vars

\* Every started worker eventually delivers and exits, and the coordinator,
\* a running thread, takes its next step when it can.
FairSpec ==
    /\ Spec
    /\ WF_vars(Coordinator(backend))
    /\ \A p \in 0..(MaxJobs - 1) : WF_vars(p \in Pids /\ (WorkerPut(p) \/ WorkerExit(p)))

\* ---- a call of _proc_f on its own ----

\* _proc_f(function, results_q, pid, args, kwargs) is called with a queue that
\* is empty or holds an envelope already; no call of schedule_workers runs.
ProcFInit ==
    /\ args_list = <<>>
    /\ max_processes = 1
    /\ forward_exceptions = TRUE
    /\ backend = "Process"
    /\ pc = "for"
    /\ caller = "for"
    /\ pid = 0
    /\ next_pid = 0
    /\ processes = {}
    /\ worker = <<>>
    /\ results = <<>>
    /\ result = None
    /\ raised = None
    /\ joined = {}
    /\ received = <<>>
    /\ terminate_calls = {}
    /\ results_q \in {<<>>, <<retdict0(0)>>}
    /\ \E p \in 0..MaxJobs, v \in 0..(MaxJobs - 1), o \in Outcomes :
          proc_f = [pc |-> "try", pid |-> p, args |-> <<v>>, outcome |-> o,
                    retdict |-> retdict0(p), pending |-> None, escaped |-> None,
                    q0 |-> results_q]

\* Line 57: the function is called; its result is stored, or what it raised
\* is caught by the except clause or stays pending through the finally.
ProcFTry ==
    /\ proc_f.pc = "try"
    /\ proc_f' =
          IF proc_f.outcome = "return"
          THEN [proc_f EXCEPT !.pc = "finally",
                              !.retdict = [@ EXCEPT !.result = function(proc_f)]]
          ELSE IF caught(proc_f.outcome)
          THEN [proc_f EXCEPT !.pc = "except"]
          ELSE [proc_f EXCEPT !.pc = "finally",
                              !.pending = <<Raises(proc_f.outcome, proc_f.args)>>]
    /\ UNCHANGED <<scheduler, results_q>>

\* Lines 58-61: retdict['exception'] = [e, stacktrace].
ProcFExcept ==
    /\ proc_f.pc = "except"
    /\ proc_f' = [proc_f EXCEPT
                    !.pc = "finally",
                    !.retdict = [@ EXCEPT !.exception =
                                   <<Raises(proc_f.outcome, proc_f.args), stacktrace>>]]
    /\ UNCHANGED <<scheduler, results_q>>

\* Lines 62-63: results_q.put(retdict); then the call returns, or the pending
\* exception leaves _proc_f.
ProcFFinally ==
    /\ proc_f.pc = "finally"
    /\ results_q' = put(results_q, proc_f.retdict)
    /\ proc_f' = [proc_f EXCEPT !.pc = "done", !.escaped = proc_f.pending]
    /\ UNCHANGED scheduler

ProcFNext ==
    \/ ProcFTry
    \/ ProcFExcept
    \/ ProcFFinally

ProcFSpec == ProcFInit /\ [][ProcFNext]_vars

TypeOK ==
    /\ pc \in {"for", "start", "get", "join", "while", "returned", "raised"}
    /\ processes \subseteq Pids
    /\ next_pid \in 0..Len(args_list)
    /\ args_list \in Seq(Job)

\* ---- vocabulary of the properties ----

Ended == pc \in {"returned", "raised"}

NoJobRaises == \A i \in 1..Len(args_list) : ~args_list[i].crash

SomeJobRaises == \E i \in 1..Len(args_list) : args_list[i].crash

\* Workers whose process is alive.
Active == {p \in Pids : worker[p] \in {"running", "delivered"}}

\* Workers that have been started and whose handle has not been joined.
StartedNotJoined == {p \in Pids : worker[p] # "none" /\ p \notin joined}

Range(s) == {s[i] : i \in DOMAIN s}

\* The multiset of the elements of a sequence.
BagOf(s) == [x \in Range(s) |-> Cardinality({i \in DOMAIN s : s[i] = x})]

\* The result of every job, in submission order.
JobResults == [i \in 1..Len(args_list) |-> function(args_list[i])]

\* The indices of the jobs that do not raise, and their results in submission order.
RECURSIVE SuccessResults(_)
SuccessResults(jobs) ==
    IF jobs = <<>> THEN <<>>
    ELSE IF Head(jobs).crash THEN SuccessResults(Tail(jobs))
    ELSE <<function(Head(jobs))>> \o SuccessResults(Tail(jobs))

\* ---- C1 ----
\* C1: with a positive limit, processes never holds more than max_processes
\* handles, and no more than max_processes workers are started and not joined.
C1_WindowBounded ==
    max_processes >= 1 =>
        /\ Cardinality(processes) <= max_processes
        /\ Cardinality(StartedNotJoined) <= max_processes

\* The window is full while jobs remain: the coordinator waits in collect_result.
C1_Witness ==
    /\ max_processes >= 2
    /\ Cardinality(processes) = max_processes
    /\ pc = "get" /\ caller = "for"
    /\ backend = "Process"

\* ---- C2 ----
\* C2: with a limit >= 1 and no job raising, the call returns, and the list it
\* returns has one entry per job and is a permutation of the jobs' results.
C2_NoFailure == max_processes >= 1 /\ NoJobRaises

C2_AllResultsReturned ==
    /\ [](C2_NoFailure => /\ pc # "raised"
                          /\ pc = "returned" =>
                               /\ Len(results) = Len(args_list)
                               /\ BagOf(results) = BagOf(JobResults))
    /\ (C2_NoFailure ~> pc = "returned")

\* A call with several jobs has returned their results out of submission order.
C2_Witness ==
    /\ pc = "returned" /\ C2_NoFailure
    /\ Len(args_list) >= 3
    /\ results # JobResults

\* ---- C3 ----
\* C3: with forward_exceptions set and a limit >= 1, a call one of whose jobs
\* raises never returns a list, and it ends by raising.
C3_Failing == forward_exceptions /\ max_processes >= 1 /\ SomeJobRaises

C4_Masking == ~forward_exceptions /\ max_processes >= 1

C4_WitnessAllRaise ==
    /\ C4_Masking /\ pc = "returned"
    /\ Len(args_list) >= 2
    /\ \A i \in 1..Len(args_list) : args_list[i].crash
    /\ results = <<>>

\* ---- C5 ----
\* C5: with limit 1 and no job raising, at most one worker is alive, job k+1
\* is started only after the result of job k is collected and its handle
\* joined, and the returned list is the jobs' results in submission order.
C5_Serialized ==
    (max_processes = 1 /\ NoJobRaises) =>
        /\ Cardinality(Active) <= 1
        /\ \A p \in Pids : (p >= 1 /\ worker[p] # "none") =>
               /\ (p - 1) \in joined
               /\ Len(results) >= p
               /\ worker[p - 1] = "exited"
        /\ pc = "returned" => results = JobResults

\* A serialized call over several jobs with different results has returned.
C5_Witness ==
    /\ max_processes = 1 /\ NoJobRaises /\ pc = "returned"
    /\ backend = "Process"
    /\ Len(args_list) >= 3

\* ---- C6 ----
\* C6: a call with a limit of zero or less and at least one job ends in an
\* error before any worker is started: it is at its entry or it has raised.
C6_BadLimit == max_processes <= 0 /\ Len(args_list) >= 1

C6_ConfigurationError ==
    C6_BadLimit =>
        /\ \A p \in Pids : worker[p] = "none"
        /\ \/ pc = "raised"
           \/ pc = "for" /\ next_pid = 0

\* ---- C7 ----
\* C7: with a limit >= 1 every call ends; it returns only when every job has
\* been submitted and processes is empty, and it raises only a failure it
\* received while forward_exceptions is set.
C7_Termination ==
    /\ []((max_processes >= 1 /\ pc = "returned") =>
            /\ next_pid = Len(args_list)
            /\ processes = {})
    /\ []((max_processes >= 1 /\ pc = "raised") =>
            /\ forward_exceptions
            /\ result.exception # None)
    /\ (max_processes >= 1 ~> Ended)

\* A call with more jobs than the limit, which had to wait in both loops, has
\* ended.
C7_Witness ==
    /\ max_processes >= 1
    /\ Len(args_list) > max_processes
    /\ backend = "Process"
    /\ Ended
    /\ Len(received) >= 2

\* ---- C8 ----
\* C8: with FakeProcess, any limit >= 1 and no job raising, the returned list
\* is the jobs' results in submission order.
C8_FakeInOrder ==
    (backend = "FakeProcess" /\ max_processes >= 1 /\ NoJobRaises /\ pc = "returned")
        => results = JobResults

\* A FakeProcess call with a window of several handles has returned.
C8_Witness ==
    /\ backend = "FakeProcess" /\ max_processes >= 2 /\ NoJobRaises
    /\ pc = "returned"
    /\ Len(args_list) >= 3

FailuresReceived == {i \in DOMAIN received : received[i].exception # None}

C10_Inv ==
    forward_exceptions =>
        /\ Cardinality(FailuresReceived) <= 1
        /\ (pc = "raised") = (FailuresReceived # {})
        /\ (raised # None) = (pc = "raised")
        /\ \A i \in FailuresReceived :
              /\ i = Len(received)
              /\ result = received[i]
              /\ raised.type = received[i].exception[1].type
              /\ raised.args = received[i].exception[1].args \o <<received[i].exception[2]>>

C10_FirstFailureWins ==
    /\ []C10_Inv
    /\ [][pc = "raised" => UNCHANGED <<pc, received, raised, results, result>>]_vars

\* The failure raised is not that of the failing job with the lowest pid, and
\* the envelope of another failing job is left in the queue.
C10_Witness ==
    /\ forward_exceptions /\ pc = "raised"
    /\ \E p \in Pids : p < result.pid /\ JobOf(p).crash
    /\ \E i \in DOMAIN results_q : results_q[i].exception # None

\* ---- C11 ----
\* C11: when the call has returned or raised, processes is empty and no worker
\* is alive; after a return every started worker has been joined; after a
\* raise the handle of the failing job has been joined and deleted and every
\* other handle's worker has been terminated or is gone.
C11_NoStateOutlivesCall ==
    Ended =>
        /\ processes = {}
        /\ Active = {}
        /\ pc = "returned" => StartedNotJoined = {}
        /\ pc = "raised" =>
              /\ result.pid \in joined
              /\ result.pid \notin processes
              /\ \A p \in Pids \ {result.pid} :
                    worker[p] \in {"none", "exited", "terminated"}

\* ---- C12 ----
\* C12: the failure path calls terminate() on every handle of processes but
\* the one whose job reported the failure, never on that one; and no handle is
\* terminated while no failure was received and its own envelope was not got.
C12_CancelsOnlyOthers ==
    /\ pc = "raised" =>
          {c.pid : c \in {d \in terminate_calls : d.line = 109}} = processes \ {result.pid}
    /\ \A c \in terminate_calls :
          \/ c.line = 109 /\ pc = "raised" /\ c.pid # result.pid
          \/ c.line = 115 /\ \E i \in DOMAIN received : received[i].pid = c.pid

\* What the code does: the failure path terminates every handle, the
\* reporting one included; line 115 only terminates a joined handle.
C12_TerminatesAllHandles ==
    /\ pc = "raised" =>
          {c.pid : c \in {d \in terminate_calls : d.line = 109}} = processes
    /\ \A c \in terminate_calls :
          \/ c.line = 109 /\ pc = "raised"
          \/ c.line = 115 /\ c.pid \in joined
                           /\ \E i \in DOMAIN received : received[i].pid = c.pid

\* ---- C13 ----
\* C13: with forward_exceptions set, a failure envelope once received, the
\* call has raised: the jobs started are the first ones of args_list, every
\* later job is never started, and from then on no job is started and no
\* envelope is got.
Started == {p \in Pids : worker[p] # "none"}

C13_NoAdmissionAfterFailure ==
    /\ [](forward_exceptions /\ FailuresReceived # {} =>
            /\ pc = "raised"
            /\ \E k \in 0..Len(args_list) : Started = 0..(k - 1))
    /\ [][(forward_exceptions /\ FailuresReceived # {}) =>
            /\ Started' = Started
            /\ UNCHANGED <<next_pid, pid, received, results_q, processes>>]_vars

\* The call raised while jobs of args_list were still waiting to be started.
C13_Witness ==
    /\ forward_exceptions /\ pc = "raised"
    /\ caller = "for"
    /\ Started # Pids
    /\ Started # {}

\* ---- C14 ----
\* C14: with a limit >= 1, while jobs remain the coordinator waits in
\* collect_result only with exactly max_processes handles in processes; one
\* envelope got, its next step starts the waiting job pid, before any other
\* get; and the jobs are started in the order 0, 1, 2, ...
C14_Filling == max_processes >= 1 /\ caller = "for" /\ pc \in {"get", "join"}

C14_SlidingWindow ==
    /\ []((max_processes >= 1 /\ pc = "get" /\ caller = "for") =>
            /\ Cardinality(processes) = max_processes
            /\ Started = 0..(pid - 1))
    /\ [](max_processes >= 1 =>
            /\ \E k \in 0..Len(args_list) : Started = 0..(k - 1)
            /\ pc = "start" => Started = 0..pid)
    /\ [][(C14_Filling /\ pc = "get" /\ pc' # "get") =>
            /\ Len(received') = Len(received) + 1
            /\ pc' \in {"join", "raised"}]_vars
    /\ [][(C14_Filling /\ pc = "join" /\ pc' # "join") =>
            /\ pc' = "start"
            /\ received' = received
            /\ Started' = Started \cup {pid}
            /\ pid \notin Started
            /\ Cardinality(processes') = max_processes - 1]_vars

\* The window slid: with jobs left, a handle was collected and job pid started
\* in its place while other handles stay in processes.
C14_Witness ==
    /\ max_processes >= 2
    /\ pc = "start" /\ caller = "for"
    /\ pid >= max_processes
    /\ Cardinality(processes) = max_processes - 1
    /\ backend = "Process"

\* ---- C15 ----
\* C15: a handle is put in processes by new_process, once its worker has been
\* started; it is deleted only by the collect step that got the envelope with
\* its pid, after join() has returned for it (its worker is gone); this holds
\* for a success and for a failure that is not forwarded alike.
Gone(p) == backend = "Process" => worker[p] \in {"exited", "terminated"}

C15_Inv ==
    /\ \A p \in processes : p \in Started /\ p \notin joined
    /\ \A p \in Started \ processes :
          \/ pc = "start" /\ p = pid
          \/ /\ p \in joined
             /\ \E i \in DOMAIN received : received[i].pid = p
             /\ Gone(p)

C15_HandleLifecycle ==
    /\ []C15_Inv
    /\ [][\A p \in Pids :
            /\ (p \notin processes /\ p \in processes') =>
                  /\ pc = "start" /\ pc' = "for"
                  /\ p = pid
                  /\ p \in Started
            /\ (p \in processes /\ p \notin processes') =>
                  /\ pc = "join"
                  /\ p = result.pid
                  /\ result = received[Len(received)]
                  /\ p \in joined'
                  /\ Gone(p)]_vars

\* The handle of a job whose failure is not forwarded was joined and deleted
\* while another handle stays in processes.
C15_Witness ==
    /\ ~forward_exceptions
    /\ backend = "Process"
    /\ result # None
    /\ result.exception # None
    /\ result.pid \in joined
    /\ result.pid \notin processes
    /\ processes # {}

\* ---- C16 ----
\* C16: whenever the coordinator waits in results_q.get(), some handle of
\* processes is outstanding: its envelope is in the queue or its worker has
\* still to put it; processes is never empty then.
Outstanding ==
    {p \in processes : \/ worker[p] = "running"
                        \/ \E i \in DOMAIN results_q : results_q[i].pid = p}

C16_ReceiveHasOutstanding ==
    pc = "get" => Outstanding # {}

\* With a limit >= 1 every handle of processes is outstanding at each get.
C16_PositiveLimit ==
    (pc = "get" /\ max_processes >= 1) => (Outstanding = processes /\ processes # {})

\* ---- C17 ----
\* The envelope a finished call of _proc_f has put, and what was in the
\* queue before it.
Delivered == results_q[Len(results_q)]

ProcFDone == proc_f.pc = "done"

OneEnvelope ==
    /\ ProcFDone =>
          /\ Len(results_q) = Len(proc_f.q0) + 1
          /\ SubSeq(results_q, 1, Len(proc_f.q0)) = proc_f.q0
          /\ Delivered.pid = proc_f.pid
    /\ ~ProcFDone => results_q = proc_f.q0

\* C17 as claimed: every call of _proc_f puts exactly one envelope, with the
\* pid, before it ends; after a return the envelope holds the result and no
\* exception; after anything raised it holds [e, stacktrace] and no result,
\* and nothing raised leaves _proc_f.
C17_AnyErrorCaptured ==
    /\ OneEnvelope
    /\ ProcFDone =>
          /\ proc_f.escaped = None
          /\ IF proc_f.outcome = "return"
             THEN /\ Delivered.result = proc_f.args
                  /\ Delivered.exception = None
             ELSE /\ Delivered.result = None
                  /\ Delivered.exception =
                        <<Raises(proc_f.outcome, proc_f.args), stacktrace>>

\* C17, amended: the same for a return and for an Exception; a BaseException
\* that is no Exception is not caught: the envelope put holds neither result
\* nor exception, and the exception leaves _proc_f.  For a return and for an
\* Exception the envelope is the one the workers of the scheduler put.
C17_ExceptionCaptured ==
    /\ OneEnvelope
    /\ ProcFDone =>
          /\ proc_f.outcome = "return" =>
                /\ Delivered.result = proc_f.args
                /\ Delivered.exception = None
                /\ proc_f.escaped = None
          /\ proc_f.outcome = "Exception" =>
                /\ Delivered.result = None
                /\ Delivered.exception =
                      <<Raises("Exception", proc_f.args), stacktrace>>
                /\ proc_f.escaped = None
          /\ proc_f.outcome = "BaseException" =>
                /\ Delivered = retdict0(proc_f.pid)
                /\ proc_f.escaped = <<Raises("BaseException", proc_f.args)>>
          /\ proc_f.outcome # "BaseException" =>
                Delivered = _proc_f(proc_f.pid, [args |-> proc_f.args,
                                                crash |-> proc_f.outcome = "Exception"])

\* A call whose function raised an Exception has put its envelope behind one
\* that was in the queue already.
C17_Witness ==
    /\ ProcFDone
    /\ proc_f.outcome = "Exception"
    /\ Len(results_q) = 2
    /\ proc_f.pid >= 1

\* ---- C18 ----
\* How often an envelope of job p is in the queue, and how often one was got.
InQueue(p) == Cardinality({i \in DOMAIN results_q : results_q[i].pid = p})

Got(p) == Cardinality({i \in DOMAIN received : received[i].pid = p})

\* C18 as claimed: when the call has returned or raised, results_q is empty.
C18_NothingLeftAtEnd == Ended => results_q = <<>>

\* C18, amended: an envelope a worker has put is in the queue or was got,
\* once in all; no worker, no envelope; when the call returns every job's
\* envelope was got once and the queue is empty.  (When the call raises, the
\* envelopes put and not yet got stay in the queue.)
C18_EnvelopeAccounting ==
    /\ \A p \in Pids :
          /\ InQueue(p) + Got(p) <= 1
          /\ worker[p] \in {"delivered", "exited"} => InQueue(p) + Got(p) = 1
          /\ worker[p] \in {"none", "running"} => InQueue(p) + Got(p) = 0
          /\ InQueue(p) + Got(p) = 1 =>
                (results_q \o received)[CHOOSE i \in 1..(Len(results_q) + Len(received)) :
                    (results_q \o received)[i].pid = p] = _proc_f(p, JobOf(p))
    /\ Len(results_q) + Len(received) <= Len(args_list)
    /\ pc = "returned" =>
          /\ results_q = <<>>
          /\ \A p \in Pids : Got(p) = 1

\* Two workers have put their envelopes at the same time and both were got.
C18_Witness ==
    /\ backend = "Process"
    /\ pc = "returned"
    /\ Len(args_list) >= 2
    /\ received[1].pid # 0

\* The call raised and left envelopes in the queue.
C18_LeftInQueue == pc = "raised" /\ Len(results_q) >= 2

\* ---- C19 ----
\* The results of the envelopes got that carry no exception, in the order got.
RECURSIVE SuccessesOf(_)
SuccessesOf(envelopes) ==
    IF envelopes = <<>> THEN <<>>
    ELSE IF Head(envelopes).exception = None
         THEN <<Head(envelopes).result>> \o SuccessesOf(Tail(envelopes))
         ELSE SuccessesOf(Tail(envelopes))

\* C19: at every moment, and so at the return, results is the sequence of the
\* success payloads in the order their envelopes were got; an append leaves
\* what is in the list where it is.
C19_ArrivalOrder ==
    /\ [](results = SuccessesOf(received))
    /\ [][Len(results') >= Len(results)
           /\ SubSeq(results', 1, Len(results)) = results]_vars

\* With Process, a limit >= 2 and two jobs, the list returned is not in
\* submission order.
C19_Witness ==
    /\ backend = "Process"
    /\ max_processes >= 2
    /\ Len(args_list) = 2
    /\ pc = "returned"
    /\ results = <<function(JobOf(1)), function(JobOf(0))>>

\* ---- C20 ----
\* Started workers that have not put their envelope yet.
NotDelivered == {p \in Pids : worker[p] = "running"}

BeforeRaise == max_processes >= 1 /\ pc # "raised"

\* C20 as claimed: in every state before a raise, len(processes) is the number
\* of envelopes in the queue plus the number of started workers that have not
\* delivered, and the envelope just got names a key of processes.
C20_Conservation ==
    BeforeRaise =>
        /\ Cardinality(processes) = Len(results_q) + Cardinality(NotDelivered)
        /\ pc = "join" => result.pid \in processes

\* C20, amended: the equation holds whenever the coordinator is at the head
\* of a loop, waiting in get, or has returned; inside new_process, between
\* start() and processes[pid] = new_proc, the started worker is not yet
\* counted in processes, and inside collect_result, between the get and the
\* del, the handle of the envelope got still is.  No pid is started twice,
\* every envelope in the queue and the envelope just got name a key of
\* processes (or the pid being registered), so the lookup never fails.
C20_Inv ==
    BeforeRaise =>
        /\ Cardinality(processes)
             + (IF pc = "start" THEN 1 ELSE 0)
             - (IF pc = "join" THEN 1 ELSE 0)
           = Len(results_q) + Cardinality(NotDelivered)
        /\ pc \in {"for", "while", "get", "returned"} =>
              Cardinality(processes) = Len(results_q) + Cardinality(NotDelivered)
        /\ \A i \in DOMAIN results_q :
              \/ results_q[i].pid \in processes
              \/ pc = "start" /\ results_q[i].pid = pid
        /\ \A i, j \in DOMAIN results_q : results_q[i].pid = results_q[j].pid => i = j
        /\ pc = "join" => result.pid \in processes
        /\ pc = "start" => pid \notin processes

C20_ConservationAtRest ==
    /\ []C20_Inv
    /\ [][\A p \in Pids : worker'[p] = "running" =>
              worker[p] \in {"none", "running"}]_vars

\* The window is full of handles, some with their envelope in the queue and
\* some whose worker has not delivered yet, while the coordinator waits.
C20_Witness ==
    /\ BeforeRaise
    /\ pc = "get"
    /\ Cardinality(processes) >= 2
    /\ Len(results_q) >= 1
    /\ Cardinality(NotDelivered) >= 1

=============================================================================
